---- MODULE Spec2Model ----
(***************************************************************************)
(* A model of eolearn.io.processing_api.SentinelHubProcessingInput: the    *)
(* constructor, request_from_date, generate_evalscript, get_dates,         *)
(* size_from_resolution and execute, with the date-discovery service, the  *)
(* download client and the output container as collaborators.              *)
(*                                                                         *)
(* Dates are whole seconds since an epoch, time_difference is a timedelta  *)
(* in whole seconds, and maxcc is the fraction k / CcDenom.  A Python      *)
(* value that may be None is a sequence of length 0 (None) or 1.           *)
(***************************************************************************)
EXTENDS Integers, Sequences, FiniteSets, TLC

\* ---- bounds of the model ------------------------------------------------
\* the latest date, and the longest list, the date service returns (SpecDates)
MaxDate == 4
MaxDates == 3
\* the same for the other specifications
MaxDateExec == 1
MaxDatesExec == 2
\* the largest time_difference, in seconds
MaxGap == 3
\* maxcc ranges over 0/CcDenom .. CcDenom/CcDenom
CcDenom == 8
\* the longest band list and additional_data list (SpecBands)
MaxBands == 2
MaxMasks == 2

\* ---- values ---------------------------------------------------------------
BandNames == {"B04", "CLM"}
FeatureTypes == {"MASK"}
\* data_source.bands(): the data source's own band list
DataSourceBands == <<"B04", "B08">>
\* the bounding box handed to execute: (min_x, min_y, max_x, max_y)
BBox == <<0, 0, 4, 2>>
TimeIntervals == {<<0, 9>>, <<1, 8>>}

SeqsUpTo(S, n) == UNION {[1..k -> S] : k \in 0..n}
Range(s) == {s[i] : i \in DOMAIN s}
EmptyFcn == [x \in {} |-> 0]

\* ---- sorted(dates) ----------------------------------------------------------
RECURSIVE Insert(_, _)
Insert(s, d) ==
  IF s = <<>> THEN <<d>>
  ELSE IF d < Head(s) THEN <<d>> \o s
  ELSE <<Head(s)>> \o Insert(Tail(s), d)

RECURSIVE Sorted(_)
Sorted(s) == IF s = <<>> THEN <<>> ELSE Insert(Sorted(Tail(s)), Head(s))

\* ---- get_dates, line 124 ----------------------------------------------------
\* a comparison that also keeps a date exactly time_difference later
KeepsDateAtLeast(d1, d2, time_difference) == d2 - d1 >= time_difference

\* a date other than the first is kept when it is more than time_difference after
\* the date before it in the sorted list
KeepsDate(d1, d2, time_difference) == d2 - d1 > time_difference

\* [d2 for d1, d2 in zip(dates[:-1], dates[1:]) if d2 - d1 > self.time_difference]
RECURSIVE ZipFilter(_, _, _)
ZipFilter(s, i, time_difference) ==
  IF i > Len(s) THEN <<>>
  ELSE (IF KeepsDate(s[i - 1], s[i], time_difference) THEN <<s[i]>> ELSE <<>>)
       \o ZipFilter(s, i + 1, time_difference)

\* lines 123-125, on a non-empty list
CleanDates(ds, time_difference) ==
  LET s == Sorted(ds) IN <<s[1]>> \o ZipFilter(s, 2, time_difference)

\* ---- size_from_resolution, lines 128-134 ------------------------------------
\* int() truncates towards zero
IntDiv(a, b) == IF a >= 0 THEN a \div b ELSE -((-a) \div b)

size_from_resolution(bbox, resolution) ==
  <<IntDiv(bbox[3] - bbox[1], resolution), IntDiv(bbox[4] - bbox[2], resolution)>>

\* ---- __init__, lines 52-56 --------------------------------------------------
\* self.bands = bands or data_source.bands() if bands_feature else []
InitBands(bands_feature, bands) ==
  IF bands_feature # <<>>
    THEN (IF bands # <<>> THEN bands ELSE DataSourceBands)
    ELSE <<>>

\* the two lists joined the other way round
AllBandsMasksFirst(bands, additional_data) ==
  [i \in 1..Len(additional_data) |-> additional_data[i][2]] \o bands

\* self.all_bands = self.bands + [f_name for _, f_name in self.additional_data]
AllBands(bands, additional_data) ==
  bands \o [i \in 1..Len(additional_data) |-> additional_data[i][2]]

\* ---- generate_evalscript, lines 79-109 --------------------------------------
\* the parts of the script the band list decides: the input band list
\* (json.dumps keeps the order), the output channel count, the sample type and
\* the list evaluatePixel returns, 'sample.<band>' for each band
generate_evalscript(all_bands) ==
  [input_bands |-> all_bands,
   output_bands |-> Len(all_bands),
   sampleType |-> "UINT16",
   userData |-> <<"norm_factor", "normalizationFactor">>,
   samples |-> [i \in 1..Len(all_bands) |-> <<"sample", all_bands[i]>>]]

\* ---- the request body, lines 148-154 ----------------------------------------
\* The body is a structure of dicts and lists, kept on a heap (a sequence of
\* cells, an address is an index): a body cell holding the bounds, the output,
\* the evalscript and the addresses of input.data's entries; for each entry a
\* data cell (the entry and its dataFilter) and a timeRange cell.
BodyCell(bounds, data, output, evalscript) ==
  [kind |-> "body", bounds |-> bounds, data |-> data, output |-> output,
   evalscript |-> evalscript]
DataCell(type, timeRange) ==
  [kind |-> "data", type |-> type, timeRange |-> timeRange, maxCloudCoverage |-> <<>>]
TimeRangeCell == [kind |-> "timeRange", from |-> <<>>, to |-> <<>>]

Responses == <<<<"default", "image/tiff">>, <<"userdata", "application/json">>>>

\* shr.body(...) of lines 149-154: allocates the template at the end of heap h
BuildBody(h, bbox, size_xy, evalscript) ==
  LET n == Len(h)
  IN [heap |-> h \o <<BodyCell(bbox, <<n + 2>>,
                               [size_x |-> size_xy[1], size_y |-> size_xy[2],
                                responses |-> Responses],
                               evalscript),
                      DataCell("api_identifier", n + 3),
                      TimeRangeCell>>,
      root |-> n + 1]

\* the cells reachable from a body
CellsOf(h, a) ==
  {a} \cup Range(h[a].data) \cup {h[d].timeRange : d \in Range(h[a].data)}

\* the value of a body: what a reader of the structure sees
DataValue(h, d) ==
  [type |-> h[d].type, from |-> h[h[d].timeRange].from, to |-> h[h[d].timeRange].to,
   maxCloudCoverage |-> h[d].maxCloudCoverage]
BodyValue(h, a) ==
  [bounds |-> h[a].bounds, output |-> h[a].output, evalscript |-> h[a].evalscript,
   data |-> [i \in 1..Len(h[a].data) |-> DataValue(h, h[a].data[i])]]

\* ---- request_from_date, lines 59-77 -----------------------------------------
\* copy.copy: a new top-level cell over the same entries
ShallowCopy(h, a) ==
  [heap |-> h \o <<h[a]>>, root |-> Len(h) + 1]

\* deepcopy(request), line 68: every reachable cell is copied to a new address
DeepCopy(h, a) ==
  LET n == Len(h)
      k == Len(h[a].data)
  IN [heap |-> h \o <<[h[a] EXCEPT !.data = [i \in 1..k |-> n + 1 + i]]>>
                 \o [i \in 1..k |-> [h[h[a].data[i]] EXCEPT !.timeRange = n + 1 + k + i]]
                 \o [i \in 1..k |-> h[h[h[a].data[i]].timeRange]],
      root |-> n + 1]

\* date.isoformat() + 'Z', line 66
isoformat(date) == <<"T", date>>
TimeString(date) == Append(isoformat(date), "Z")

\* int(maxcc * 100), line 75: maxcc is k / CcDenom, int() truncates
IntPercent(k) == IntDiv(k * 100, CcDenom)

\* the loop of lines 69-75 from entry i on
RECURSIVE SetFilters(_, _, _, _, _, _)
SetFilters(h, data, i, time_from, time_to, maxcc) ==
  IF i > Len(data) THEN h
  ELSE LET d == data[i]
           tr == h[d].timeRange
           h1 == [h EXCEPT ![tr].from = time_from, ![tr].to = time_to]
           h2 == [h1 EXCEPT ![d].maxCloudCoverage = <<IntPercent(maxcc)>>]
       IN SetFilters(h2, data, i + 1, time_from, time_to, maxcc)

request_from_date(h, request, date, maxcc) ==
  LET date_from == date
      date_to == date + 1
      c == DeepCopy(h, request)
  IN [heap |-> SetFilters(c.heap, c.heap[c.root].data, 1,
                          TimeString(date_from), TimeString(date_to), maxcc),
      root |-> c.root]

\* the requests collected latest first
RECURSIVE BuildRequestsReversed(_, _, _, _, _)
BuildRequestsReversed(h, request, ds, i, maxcc) ==
  IF i > Len(ds) THEN [heap |-> h, requests |-> <<>>]
  ELSE LET r == request_from_date(h, request, ds[i], maxcc)
           rest == BuildRequestsReversed(r.heap, request, ds, i + 1, maxcc)
       IN [heap |-> rest.heap, requests |-> rest.requests \o <<r.root>>]

\* lines 166-167: one request per date, in the order of dates; each
\* DownloadRequest holds its payload
RECURSIVE BuildRequests(_, _, _, _, _)
BuildRequests(h, request, ds, i, maxcc) ==
  IF i > Len(ds) THEN [heap |-> h, requests |-> <<>>]
  ELSE LET r == request_from_date(h, request, ds[i], maxcc)
           rest == BuildRequests(r.heap, request, ds, i + 1, maxcc)
       IN [heap |-> rest.heap, requests |-> <<r.root>> \o rest.requests]

\* ---- the download client's results, lines 171-176 ---------------------------
\* The remote service evaluates the script over the scene in the request's time
\* range: the image it returns has the scene's date and some number of channels,
\* channel c holding samples[c]; userdata.json is None (<<>>), a dict without
\* norm_factor (<<"dict">>) or a dict with it (<<"dict", n>>).
UserDatas == {<<>>, <<"dict">>, <<"dict", 2>>}
\* the channel counts of a response: the output_bands asked for, or one fewer
\* (a malformed response)
ChannelCounts(output_bands) ==
  {output_bands} \cup (IF output_bands > 0 THEN {output_bands - 1} ELSE {})

SceneDate(payload) == payload.data[1].from[2]

Results(payload) ==
  {[date |-> SceneDate(payload), nchan |-> c, userdata |-> u] :
     c \in ChannelCounts(payload.evalscript.output_bands), u \in UserDatas}

\* meta.get('norm_factor', 0) if meta else 0, line 176
NormFactor(meta) == IF Len(meta) = 2 THEN meta[2] ELSE 0

Decode(result) ==
  [date |-> result.date, nchan |-> result.nchan, norm_factor |-> NormFactor(result.userdata)]

\* ---- the output container ----------------------------------------------------
NoPatch ==
  [exists |-> FALSE, timestamp |-> <<>>, bbox |-> <<>>, data |-> EmptyFcn,
   meta_info |-> EmptyFcn]
\* EOPatch()
NewPatch == [NoPatch EXCEPT !.exists = TRUE]
\* a container the caller hands in, with content of an earlier run
CallerPatch ==
  [exists |-> TRUE, timestamp |-> <<90, 91>>, bbox |-> <<9, 9, 9, 9>>,
   data |-> (<<"MASK", "OLD">> :>
              <<[date |-> 90, chans |-> <<1>>, dtype |-> "bool", factor |-> <<>>],
                [date |-> 91, chans |-> <<1>>, dtype |-> "bool", factor |-> <<>>]>>),
   meta_info |-> ("service_type" :> "wcs")]

\* ---- the assembly, lines 178-204 ---------------------------------------------
\* self.all_bands.index(f_name), as a position from 1: the first occurrence
Index(all_bands, f_name) ==
  CHOOSE i \in 1..Len(all_bands) :
    /\ all_bands[i] = f_name
    /\ \A j \in 1..(i - 1) : all_bands[j] # f_name

\* An array is a sequence along the date axis; an element records the image it
\* was taken from (by the image's date), the channels read from it, in order,
\* the type it was cast to and the factor it was multiplied by.
\* lines 188-189: channel idx of every image, as bool
MaskArray(imgs, idx) ==
  [i \in 1..Len(imgs) |->
     [date |-> imgs[i].date, chans |-> <<idx>>, dtype |-> "bool", factor |-> <<>>]]

\* lines 193-195: the leading img_bands channels of every image, as float32
\* times the image's norm_factor
BandArray(imgs, img_bands) ==
  [i \in 1..Len(imgs) |->
     [date |-> imgs[i].date, chans |-> [c \in 1..img_bands |-> c], dtype |-> "float32",
      factor |-> <<imgs[i].norm_factor>>]]

\* the loop of lines 186-189 from entry j on; indexing a channel an image does
\* not have raises IndexError and ends the loop with the writes made so far
RECURSIVE WriteMasks(_, _, _, _, _)
WriteMasks(data, additional_data, j, all_bands, imgs) ==
  IF j > Len(additional_data) THEN [data |-> data, ok |-> TRUE]
  ELSE LET idx == Index(all_bands, additional_data[j][2])
       IN IF \E i \in 1..Len(imgs) : imgs[i].nchan < idx
            THEN [data |-> data, ok |-> FALSE]
            ELSE WriteMasks((additional_data[j] :> MaskArray(imgs, idx)) @@ data,
                            additional_data, j + 1, all_bands, imgs)

\* lines 197-202
MetaInfo(size_xy, maxcc, time_interval, time_difference) ==
  ("service_type" :> "processing") @@ ("size_x" :> size_xy[1]) @@ ("size_y" :> size_xy[2])
  @@ ("maxcc" :> maxcc) @@ ("time_interval" :> time_interval)
  @@ ("time_difference" :> time_difference)

NoError == [kind |-> "none", at |-> "", arg |-> <<>>]
Error(kind, at, arg) == [kind |-> kind, at |-> at, arg |-> arg]

\* lines 178-204 on container p (the caller's, or EOPatch()): the container as
\* the run leaves it, and the error that ended it, if any
Assembled(p, me, ds, imgs, size_xy, time_interval) ==
  LET p1 == [p EXCEPT !.timestamp = ds, !.bbox = BBox]
      m == WriteMasks(p1.data, me.additional_data, 1, me.all_bands, imgs)
      p2 == [p1 EXCEPT !.data = m.data]
      img_bands == Len(me.bands)
      \* reshape(*shape, img_bands) raises ValueError when an image has fewer channels
      reshapes == \A i \in 1..Len(imgs) : imgs[i].nchan >= img_bands
      p3 == IF me.bands # <<>>
              THEN [p2 EXCEPT !.data = (me.bands_feature[1] :> BandArray(imgs, img_bands)) @@ @]
              ELSE p2
      p4 == [p3 EXCEPT !.meta_info =
               MetaInfo(size_xy, me.maxcc, time_interval, me.time_difference) @@ @]
  IN IF ~m.ok THEN [eopatch |-> p2, error |-> Error("IndexError", "assemble", <<>>)]
     ELSE IF me.bands # <<>> /\ ~reshapes
       THEN [eopatch |-> p2, error |-> Error("ValueError", "assemble", <<>>)]
     ELSE [eopatch |-> p4, error |-> NoError]

\* ---- the state ---------------------------------------------------------------
VARIABLES
  self,           \* the task, as __init__ leaves it
  supplied,       \* whether execute was handed an eopatch
  time_interval,  \* execute's time_interval
  service,        \* the dates the date service holds for this query
  pc,             \* where execute is: start, built, dated, requested, downloaded, done, failed
  built,          \* the parts of the request constructed so far
  size_xy,        \* (size_x, size_y), <<>> while unbound
  heap,           \* the request structures
  request,        \* the address of the request template, 0 before it exists
  wfs_calls,      \* the number of calls made to the date service
  dates,          \* the dates get_dates returned
  requests,       \* the payload addresses of the download requests
  downloads,      \* the batches handed to the download client, as it saw them
  images,         \* the decoded (image, norm_factor) pairs
  eopatch,        \* the container execute works on
  error,          \* the exception that ended execute
  returned        \* whether execute returned the container

vars == <<self, supplied, time_interval, service, pc, built, size_xy, heap, request,
          wfs_calls, dates, requests, downloads, images, eopatch, error, returned>>

\* __init__, lines 44-56
Construct(size, resolution, bands_feature, bands, additional_data, maxcc, time_difference) ==
  LET b == InitBands(bands_feature, bands)
  IN [size |-> size, resolution |-> resolution, maxcc |-> maxcc,
      time_difference |-> time_difference, bands_feature |-> bands_feature,
      bands |-> b, additional_data |-> additional_data,
      all_bands |-> AllBands(b, additional_data)]

\* the state after construction, the arguments of execute chosen, with the task
\* drawn from Tasks, the date service's answer from Answers
InitWith(Tasks, Answers, Intervals, Supplied) ==
  /\ self \in Tasks
  /\ service \in Answers
  /\ time_interval \in Intervals
  /\ supplied \in Supplied
  /\ eopatch = IF supplied THEN CallerPatch ELSE NoPatch
  /\ pc = "start"
  /\ built = <<>>
  /\ size_xy = <<>>
  /\ heap = <<>>
  /\ request = 0
  /\ wfs_calls = 0
  /\ dates = <<>>
  /\ requests = <<>>
  /\ downloads = <<>>
  /\ images = <<>>
  /\ error = NoError
  /\ returned = FALSE

\* ---- execute -------------------------------------------------------------------
\* lines 143-146: size_x, size_y stay unbound when neither is given
ResolveSize(me, bbox) ==
  IF me.size # <<>> THEN <<me.size[1]>>
  ELSE IF me.resolution # <<>> THEN <<size_from_resolution(bbox, me.resolution[1])>>
  ELSE <<>>

\* lines 143-154.  The arguments of shr.body are evaluated in order: the
\* responses, the bounds and the data entry are built before shr.output reads
\* size_x, which raises UnboundLocalError when it is unbound.
BuildRequest ==
  /\ pc = "start"
  /\ LET sz == ResolveSize(self, BBox)
     IN /\ size_xy' = sz
        /\ IF sz = <<>>
             THEN /\ built' = <<"responses", "bounds", "data">>
                  /\ pc' = "failed"
                  /\ error' = Error("UnboundLocalError", "build", <<>>)
                  /\ UNCHANGED <<heap, request>>
             ELSE LET b == BuildBody(heap, BBox, sz[1], generate_evalscript(self.all_bands))
                  IN /\ built' = <<"responses", "bounds", "data", "output", "evalscript", "body">>
                     /\ heap' = b.heap
                     /\ request' = b.root
                     /\ pc' = "built"
                     /\ UNCHANGED error
  /\ UNCHANGED <<self, supplied, time_interval, service, wfs_calls, dates, requests,
                 downloads, images, eopatch, returned>>

\* get_dates without the check of line 120
GetDatesUnchecked ==
  /\ pc = "built"
  /\ wfs_calls' = wfs_calls + 1
  /\ dates' = IF Len(service) = 0 THEN <<>> ELSE CleanDates(service, self.time_difference)
  /\ pc' = "dated"
  /\ UNCHANGED <<self, supplied, time_interval, service, built, size_xy, heap, request,
                 requests, downloads, images, eopatch, error, returned>>

\* get_dates, lines 111-125, called at line 165
GetDates ==
  /\ pc = "built"
  /\ wfs_calls' = wfs_calls + 1
  /\ IF Len(service) = 0
       THEN /\ pc' = "failed"
            /\ error' = Error("ValueError", "get_dates", time_interval)
            /\ UNCHANGED dates
       ELSE /\ dates' = CleanDates(service, self.time_difference)
            /\ pc' = "dated"
            /\ UNCHANGED error
  /\ UNCHANGED <<self, supplied, time_interval, service, built, size_xy, heap, request,
                 requests, downloads, images, eopatch, returned>>

\* lines 166-167
MakeRequests ==
  /\ pc = "dated"
  /\ LET r == BuildRequests(heap, request, dates, 1, self.maxcc)
     IN /\ heap' = r.heap
        /\ requests' = r.requests
  /\ pc' = "requested"
  /\ UNCHANGED <<self, supplied, time_interval, service, built, size_xy, request,
                 wfs_calls, dates, downloads, images, eopatch, error, returned>>

\* execute with the container created and stamped before the download
DownloadStamping ==
  /\ pc = "requested"
  /\ eopatch' = [(IF eopatch.exists THEN eopatch ELSE NewPatch) EXCEPT !.timestamp = dates]
  /\ LET batch == [i \in 1..Len(requests) |-> BodyValue(heap, requests[i])]
     IN /\ downloads' = Append(downloads, batch)
        /\ \/ /\ pc' = "failed"
              /\ error' = Error("DownloadFailedException", "download", <<>>)
              /\ UNCHANGED images
           \/ \E res \in [1..Len(batch) -> UNION {Results(batch[i]) : i \in 1..Len(batch)}] :
                /\ \A i \in 1..Len(batch) : res[i] \in Results(batch[i])
                /\ images' = [i \in 1..Len(batch) |-> Decode(res[i])]
                /\ pc' = "downloaded"
                /\ UNCHANGED error
  /\ UNCHANGED <<self, supplied, time_interval, service, built, size_xy, heap, request,
                 wfs_calls, dates, requests, returned>>

\* lines 171-176: the whole batch goes to the client in one call, which raises
\* or returns one result per request, in the order of the requests
Download ==
  /\ pc = "requested"
  /\ LET batch == [i \in 1..Len(requests) |-> BodyValue(heap, requests[i])]
     IN /\ downloads' = Append(downloads, batch)
        /\ \/ /\ pc' = "failed"
              /\ error' = Error("DownloadFailedException", "download", <<>>)
              /\ UNCHANGED images
           \/ \E res \in [1..Len(batch) -> UNION {Results(batch[i]) : i \in 1..Len(batch)}] :
                /\ \A i \in 1..Len(batch) : res[i] \in Results(batch[i])
                /\ images' = [i \in 1..Len(batch) |-> Decode(res[i])]
                /\ pc' = "downloaded"
                /\ UNCHANGED error
  /\ UNCHANGED <<self, supplied, time_interval, service, built, size_xy, heap, request,
                 wfs_calls, dates, requests, eopatch, returned>>

\* lines 178-204
Assemble ==
  /\ pc = "downloaded"
  /\ LET a == Assembled(IF eopatch.exists THEN eopatch ELSE NewPatch, self, dates, images,
                        size_xy[1], time_interval)
     IN /\ eopatch' = a.eopatch
        /\ error' = a.error
        /\ pc' = IF a.error = NoError THEN "done" ELSE "failed"
        /\ returned' = (a.error = NoError)
  /\ UNCHANGED <<self, supplied, time_interval, service, built, size_xy, heap, request,
                 wfs_calls, dates, requests, downloads, images>>

Next == BuildRequest \/ GetDates \/ MakeRequests \/ Download \/ Assemble

\* ---- the specifications ---------------------------------------------------------
BandsFeature == <<"DATA", "BANDS">>
GivenSize == <<3, 1>>

\* execute as a whole, over a few tasks of every kind
TasksExec ==
  {Construct(size, resolution, <<BandsFeature>>, <<"B04">>, additional_data, CcDenom,
             time_difference) :
     size \in {<<>>, <<GivenSize>>}, resolution \in {<<>>, <<2>>},
     additional_data \in {<<>>, <<<<"MASK", "CLM">>>>},
     time_difference \in {-1, 1}}
Init == InitWith(TasksExec, SeqsUpTo(0..MaxDateExec, MaxDatesExec), TimeIntervals, BOOLEAN)
Spec == Init /\ [][Next]_vars

\* get_dates alone, over every list of dates and every time_difference
TasksDates ==
  {Construct(<<GivenSize>>, <<>>, <<>>, <<>>, <<>>, CcDenom, time_difference) :
     time_difference \in (-1)..MaxGap}
InitDates == InitWith(TasksDates, SeqsUpTo(0..MaxDate, MaxDates), {<<0, 9>>}, {FALSE})
NextDates == BuildRequest \/ GetDates
SpecDates == InitDates /\ [][NextDates]_vars

\* request_from_date over every maxcc
TasksRequest ==
  {Construct(<<GivenSize>>, <<>>, <<>>, <<>>, <<>>, maxcc, -1) : maxcc \in 0..CcDenom}
InitRequest ==
  InitWith(TasksRequest, SeqsUpTo(0..MaxDateExec, MaxDatesExec), {<<0, 9>>}, {FALSE})
NextRequest == BuildRequest \/ GetDates \/ MakeRequests
SpecRequest == InitRequest /\ [][NextRequest]_vars

\* execute over every band plan
TasksBands ==
  {Construct(<<GivenSize>>, <<>>, bands_feature, bands, additional_data, CcDenom, -1) :
     bands_feature \in {<<>>, <<BandsFeature>>},
     bands \in SeqsUpTo(BandNames, MaxBands),
     additional_data \in SeqsUpTo(FeatureTypes \X BandNames, MaxMasks)}
InitBandPlans == InitWith(TasksBands, {<<1>>, <<2, 0>>}, {<<0, 9>>}, {FALSE})
SpecBands == InitBandPlans /\ [][Next]_vars

\* ---- the claims -------------------------------------------------------------------
NoDuplicates(s) == \A i, j \in 1..Len(s) : s[i] = s[j] => i = j
Ascending(s) == \A i \in 2..Len(s) : s[i - 1] <= s[i]
StrictlyAscending(s) == \A i \in 2..Len(s) : s[i - 1] < s[i]

\* the reference pass of C1 over a sorted list, from position i on, `last` being
\* the most recently kept date
RECURSIVE GreedyFrom(_, _, _, _)
GreedyFrom(s, i, last, gap) ==
  IF i > Len(s) THEN <<>>
  ELSE IF s[i] - last > gap
    THEN <<s[i]>> \o GreedyFrom(s, i + 1, s[i], gap)
    ELSE GreedyFrom(s, i + 1, last, gap)
GreedyPass(ds, gap) ==
  LET s == Sorted(ds) IN <<s[1]>> \o GreedyFrom(s, 2, s[1], gap)

\* C1: for every set of discovered dates and every threshold, get_dates returns
\* the result of the greedy pass that keeps the first date and then each date
\* whose gap to the most recently kept date exceeds time_difference.
C1_GreedyPass ==
  (pc = "dated" /\ NoDuplicates(service)) =>
    dates = GreedyPass(service, self.time_difference)

\* C2: for every non-empty set of discovered dates and every threshold, the list
\* get_dates returns is strictly ascending, and every element but the first is
\* more than time_difference after the element before it in the list.
C2_AscendingSpaced ==
  (pc = "dated" /\ NoDuplicates(service)) =>
    /\ StrictlyAscending(dates)
    /\ \A i \in 2..Len(dates) : dates[i] - dates[i - 1] > self.time_difference

\* C2's case: several distinct dates come back, some kept after the first and
\* some dropped
C2_Witness ==
  /\ pc = "dated"
  /\ NoDuplicates(service)
  /\ Len(dates) >= 2
  /\ Len(dates) < Len(service)

\* C3: when the date service returns no dates, execute raises the no-data error,
\* which carries the requested time interval, and nothing is ever handed to the
\* download client.
C3_NoDataError ==
  (wfs_calls > 0 /\ Len(service) = 0) =>
    /\ pc = "failed"
    /\ error.kind = "ValueError"
    /\ error.arg = time_interval
    /\ requests = <<>>
    /\ downloads = <<>>
    /\ ~returned

C3_Witness ==
  /\ wfs_calls > 0
  /\ Len(service) = 0
  /\ pc = "failed"
  /\ error.at = "get_dates"

\* C4: with neither size nor resolution, execute fails with a configuration
\* error raised by a validation before any part of the request is built and
\* before any call to the date service or the download client; a configured
\* size is used as it is, also when a resolution is configured.
C4_ValidatedFirst ==
  /\ (self.size = <<>> /\ self.resolution = <<>> /\ pc # "start") =>
       /\ pc = "failed"
       /\ error.kind # "UnboundLocalError"
       /\ built = <<>>
       /\ wfs_calls = 0
       /\ downloads = <<>>
  /\ (self.size # <<>> /\ pc # "start") => size_xy = self.size

\* a request's value with its time-filter fields blanked
WithoutTimes(v) ==
  [v EXCEPT !.data = [i \in 1..Len(v.data) |-> [v.data[i] EXCEPT !.from = <<>>, !.to = <<>>]]]

\* C5: request_from_date is pure.  After the calls for all the dates the template
\* still has the empty time filter and no cloud ceiling it was built with, no
\* returned request shares a cell with the template or with another returned
\* request, and any two returned requests differ at most in their from/to fields.
C5_Pure ==
  pc = "requested" =>
    /\ \A i \in 1..Len(heap[request].data) :
         LET d == DataValue(heap, heap[request].data[i])
         IN d.from = <<>> /\ d.to = <<>> /\ d.maxCloudCoverage = <<>>
    /\ \A i \in 1..Len(requests) :
         CellsOf(heap, requests[i]) \cap CellsOf(heap, request) = {}
    /\ \A i, j \in 1..Len(requests) :
         i # j => CellsOf(heap, requests[i]) \cap CellsOf(heap, requests[j]) = {}
    /\ \A i, j \in 1..Len(requests) :
         WithoutTimes(BodyValue(heap, requests[i])) = WithoutTimes(BodyValue(heap, requests[j]))

\* C5's case: request_from_date has been called for two different dates
C5_Witness ==
  /\ pc = "requested"
  /\ Len(requests) >= 2
  /\ dates[1] # dates[2]
  /\ BodyValue(heap, requests[1]) # BodyValue(heap, requests[2])

\* round(k * 100 / CcDenom): Python's round, to the nearest integer, a tie to
\* the even one
RoundPercent(k) ==
  LET q == (k * 100) \div CcDenom
      r == (k * 100) % CcDenom
  IN IF 2 * r > CcDenom THEN q + 1
     ELSE IF 2 * r < CcDenom THEN q
     ELSE IF q % 2 = 0 THEN q ELSE q + 1

\* C9: for every date and every cloud ceiling in [0, 1], every data entry of the
\* request made for the date has from = date, to = date + 1 second and the
\* cloud ceiling round(maxcc * 100).
C9_FiltersRounded ==
  pc = "requested" =>
    \A i \in 1..Len(requests) :
      LET v == BodyValue(heap, requests[i])
      IN \A e \in 1..Len(v.data) :
           /\ v.data[e].from = <<"T", dates[i], "Z">>
           /\ v.data[e].to = <<"T", dates[i] + 1, "Z">>
           /\ v.data[e].maxCloudCoverage = <<RoundPercent(self.maxcc)>>

\* the band plan's names in declared order: the bands, then the masks
DeclaredNames ==
  self.bands \o [j \in 1..Len(self.additional_data) |-> self.additional_data[j][2]]

\* the script declares its input bands, its channel count and its per-pixel
\* emission list in the declared order
ScriptInOrder(script) ==
  /\ script.input_bands = DeclaredNames
  /\ script.output_bands = Len(DeclaredNames)
  /\ Len(script.samples) = Len(DeclaredNames)
  /\ \A c \in 1..Len(DeclaredNames) : script.samples[c] = <<"sample", DeclaredNames[c]>>

ScriptsInOrder ==
  /\ request # 0 => ScriptInOrder(heap[request].evalscript)
  /\ \A b \in 1..Len(downloads) : \A i \in 1..Len(downloads[b]) :
       ScriptInOrder(downloads[b][i].evalscript)

\* the band array's channel k is image channel k
BandsInOrder ==
  (pc = "done" /\ self.bands # <<>>) =>
    \A i \in 1..Len(dates) :
      eopatch.data[self.bands_feature[1]][i].chans = [k \in 1..Len(self.bands) |-> k]

\* the least position of a name in the declared order
FirstPosition(name) ==
  LET at == {c \in 1..Len(DeclaredNames) : DeclaredNames[c] = name}
  IN CHOOSE c \in at : \A e \in at : c <= e

\* C6, as stated: the script is in declared order, every mask is read from the
\* channel index at which it was declared (the j-th mask from channel
\* len(bands) + j, counting channels from 1), and band channel k from image
\* channel k.
C6_ChannelOrderDeclared ==
  /\ ScriptsInOrder
  /\ BandsInOrder
  /\ pc = "done" =>
       \A j \in 1..Len(self.additional_data) : \A i \in 1..Len(dates) :
         eopatch.data[self.additional_data[j]][i].chans = <<Len(self.bands) + j>>

\* C6, amended: every mask is read from the channel of the first occurrence of
\* its name in the declared order, a channel the script fills with that name's
\* sample; this is the channel it was declared at when no name occurs twice.
C6_ChannelOrderFirst ==
  /\ ScriptsInOrder
  /\ BandsInOrder
  /\ pc = "done" =>
       \A j \in 1..Len(self.additional_data) : \A i \in 1..Len(dates) :
         LET chans == eopatch.data[self.additional_data[j]][i].chans
         IN /\ chans = <<FirstPosition(self.additional_data[j][2])>>
            /\ downloads[1][i].evalscript.samples[chans[1]]
                 = <<"sample", self.additional_data[j][2]>>
            /\ NoDuplicates(DeclaredNames) => chans = <<Len(self.bands) + j>>

\* C6's case: an assembled run with bands and a mask declared after them
C6_Witness ==
  /\ pc = "done"
  /\ Len(dates) >= 2
  /\ Len(self.bands) >= 2
  /\ Len(self.additional_data) >= 1
  /\ NoDuplicates(DeclaredNames)
  /\ eopatch.data[self.additional_data[1]][2].chans = <<3>>

\* what execute writes: the masks' keys and, with bands, the bands feature
WrittenKeys ==
  Range(self.additional_data) \cup (IF self.bands # <<>> THEN {self.bands_feature[1]} ELSE {})

FullyWritten ==
  /\ eopatch.exists
  /\ eopatch.timestamp = dates
  /\ eopatch.bbox = BBox
  /\ WrittenKeys \subseteq DOMAIN eopatch.data
  /\ \A k \in WrittenKeys : Len(eopatch.data[k]) = Len(dates)
  /\ {"service_type", "size_x", "size_y", "maxcc", "time_interval", "time_difference"}
       \subseteq DOMAIN eopatch.meta_info
  /\ eopatch.meta_info["service_type"] = "processing"

\* C7: no partial success.  A run that ends has either written everything and
\* returned the container, or failed, returned nothing and left no container
\* with some of the writes: a container the caller handed in is as it was.
C7_AllOrNothing ==
  /\ pc = "done" => (returned /\ FullyWritten)
  /\ pc = "failed" => (~returned /\ (supplied => eopatch = CallerPatch))

\* C8: after a successful execute the timestamps are the kept dates, ascending;
\* one batch was submitted, holding one request per kept date in that order;
\* every array written has one entry per timestamp, and entry i is taken from
\* the image of the i-th kept date.
C8_DateAxis ==
  pc = "done" =>
    /\ eopatch.timestamp = dates
    /\ Ascending(eopatch.timestamp)
    /\ Len(downloads) = 1
    /\ Len(downloads[1]) = Len(dates)
    /\ \A i \in 1..Len(dates) : \A e \in 1..Len(downloads[1][i].data) :
         downloads[1][i].data[e].from = <<"T", dates[i], "Z">>
    /\ \A k \in WrittenKeys :
         /\ k \in DOMAIN eopatch.data
         /\ Len(eopatch.data[k]) = Len(eopatch.timestamp)
         /\ \A i \in 1..Len(eopatch.timestamp) :
              eopatch.data[k][i].date = eopatch.timestamp[i]

\* C8's case: a successful run over two dates the service listed latest first
C8_Witness ==
  /\ pc = "done"
  /\ Len(service) >= 2
  /\ service[1] > service[2]
  /\ Len(eopatch.timestamp) = 2
  /\ self.additional_data # <<>>

\* C10: nothing is written to the container before the download client has
\* returned: up to there, and when execute fails while building the request, in
\* date discovery or in the download, the container is as the caller handed it in.
C10_NoEarlyWrite ==
  (\/ pc \in {"start", "built", "dated", "requested", "downloaded"}
   \/ (pc = "failed" /\ error.at \in {"build", "get_dates", "download"}))
    => eopatch = (IF supplied THEN CallerPatch ELSE NoPatch)

\* C10's case: the download fails for a caller who handed a container in
C10_Witness ==
  /\ supplied
  /\ pc = "failed"
  /\ error.at = "download"
  /\ Len(dates) >= 1
  /\ eopatch = CallerPatch

====
